---------------------------- MODULE Spec2Model ----------------------------
(***************************************************************************)
(* The mode/tool permission gate validateToolUse (src/core/mode-validator) *)
(* and the collapsible TaskHeader component of the chat view.              *)
(*                                                                         *)
(* JavaScript runs one call at a time: a call of validateToolUse is one    *)
(* atomic step; tasks interleave only between calls.                       *)
(***************************************************************************)
EXTENDS Naturals, Sequences, FiniteSets, TLC

VARIABLES pc, call, res, seen, store, isTaskExpanded, props, dom

vars == <<pc, call, res, seen, store, isTaskExpanded, props, dom>>

gateVars == <<pc, call, res, seen, store>>

headerVars == <<isTaskExpanded, props, dom>>

(***************************************************************************)
(* JavaScript values                                                       *)
(***************************************************************************)
Undefined == [type |-> "undefined"]

Arr(items) == [type |-> "array", items |-> items]

Obj(fields) == [type |-> "object", fields |-> fields]

NoFields == [k \in {} |-> FALSE]

\* a ?? b
NullishCoalesce(a, b) == IF a = Undefined THEN b ELSE a

(***************************************************************************)
(* Bounds and input sets                                                   *)
(***************************************************************************)
NumTasks == 2

Tasks == 1..NumTasks

ToolNames == {"execute_command", "read_file", "write_to_file"}

Modes == {"ask", "docs"}

\* A user-defined mode: reading, and editing restricted to Markdown files.
DocsMode ==
    [slug |-> "docs",
     groups |-> << [group |-> "read", fileRegex |-> ""],
                   [group |-> "edit", fileRegex |-> "\\.md$"] >>]

\* A user-defined mode that overrides the built-in "ask" and adds commands.
AskOverride ==
    [slug |-> "ask",
     groups |-> << [group |-> "read", fileRegex |-> ""],
                   [group |-> "command", fileRegex |-> ""] >>]

CustomModesInputs == {Undefined, Arr(<<>>), Arr(<<DocsMode, AskOverride>>)}

ToolRequirementsInputs ==
    {Undefined, Obj(NoFields), Obj("execute_command" :> FALSE)}

ToolParamsInputs == {Undefined, Obj(NoFields), Obj("path" :> "main.ts")}

(***************************************************************************)
(* The capability resolver (shared/modes), a collaborator of the gate      *)
(***************************************************************************)
TOOL_GROUPS ==
    [read |-> {"read_file"},
     edit |-> {"write_to_file"},
     command |-> {"execute_command"}]

\* The built-in rule set: "ask" may read and nothing else.
BuiltInModes == << [slug |-> "ask", groups |-> << [group |-> "read", fileRegex |-> ""] >>] >>

\* The paths each file pattern matches, among the paths of the inputs.
doesFileMatchRegex(path, regex) == <<path, regex>> \in {<<"README.md", "\\.md$">>}

\* A custom mode of that slug wins over the built-in one; <<>> when neither has it.
getModeBySlug(slug, customModes) ==
    LET custom == IF customModes.type = "array" THEN customModes.items ELSE <<>>
        all == custom \o BuiltInModes
        hits == {i \in 1..Len(all) : all[i].slug = slug}
    IN IF hits = {} THEN <<>>
       ELSE << all[CHOOSE i \in hits : \A j \in hits : i <= j] >>

requirementDenies(tool, toolRequirements) ==
    /\ toolRequirements.type = "object"
    /\ tool \in DOMAIN toolRequirements.fields
    /\ ~toolRequirements.fields[tool]

groupAllows(g, tool, toolParams) ==
    /\ tool \in TOOL_GROUPS[g.group]
    /\ \/ g.fileRegex = ""
       \/ toolParams.type # "object"
       \/ "path" \notin DOMAIN toolParams.fields
       \/ doesFileMatchRegex(toolParams.fields["path"], g.fileRegex)

isToolAllowedForMode(tool, modeSlug, customModes, toolRequirements, toolParams) ==
    LET found == getModeBySlug(modeSlug, customModes)
    IN /\ ~requirementDenies(tool, toolRequirements)
       /\ found # <<>>
       /\ \E i \in 1..Len(found[1].groups) :
             groupAllows(found[1].groups[i], tool, toolParams)

(***************************************************************************)
(* validateToolUse                                                         *)
(***************************************************************************)
\* new Error(message)
Error(message) == [name |-> "Error", message |-> message]

\* `Tool "${toolName}" is not allowed in ${mode} mode.`
denialMessage(toolName, mode) ==
    "Tool \"" \o toolName \o "\" is not allowed in " \o mode \o " mode."

\* One consultation of the resolver: what it was given and what it answered.
Consult(toolName, mode, customModes, toolRequirements, toolParams) ==
    [toolName |-> toolName, mode |-> mode, customModes |-> customModes,
     toolRequirements |-> toolRequirements, toolParams |-> toolParams,
     answer |-> isToolAllowedForMode(toolName, mode, customModes,
                                     toolRequirements, toolParams)]

\* validateToolUse with the two substitutions of the message exchanged.
validateToolUse_swappedMessage(toolName, mode, customModes, toolRequirements, toolParams) ==
    LET c == Consult(toolName, mode, NullishCoalesce(customModes, Arr(<<>>)),
                     toolRequirements, toolParams)
    IN [consulted |-> <<c>>,
        thrown |-> IF ~c.answer THEN <<Error(denialMessage(mode, toolName))>>
                   ELSE <<>>,
        customModes |-> customModes,
        toolRequirements |-> toolRequirements,
        toolParams |-> toolParams,
        store |-> store]

\* validateToolUse without the negation of the resolver's answer.
validateToolUse_noNegation(toolName, mode, customModes, toolRequirements, toolParams) ==
    LET c == Consult(toolName, mode, NullishCoalesce(customModes, Arr(<<>>)),
                     toolRequirements, toolParams)
    IN [consulted |-> <<c>>,
        thrown |-> IF c.answer THEN <<Error(denialMessage(toolName, mode))>>
                   ELSE <<>>,
        customModes |-> customModes,
        toolRequirements |-> toolRequirements,
        toolParams |-> toolParams,
        store |-> store]

\* validateToolUse throwing an error class of its own with extra fields.
validateToolUse_structuredError(toolName, mode, customModes, toolRequirements, toolParams) ==
    LET c == Consult(toolName, mode, NullishCoalesce(customModes, Arr(<<>>)),
                     toolRequirements, toolParams)
    IN [consulted |-> <<c>>,
        thrown |-> IF ~c.answer
                   THEN <<[name |-> "ToolNotAllowed",
                           message |-> denialMessage(toolName, mode),
                           toolName |-> toolName, mode |-> mode]>>
                   ELSE <<>>,
        customModes |-> customModes,
        toolRequirements |-> toolRequirements,
        toolParams |-> toolParams,
        store |-> store]

\* validateToolUse keeping the last custom modes it was given in a
\* module-level variable and falling back to them: customModes ?? lastCustomModes.
validateToolUse_staleCustomModes(toolName, mode, customModes, toolRequirements, toolParams) ==
    LET last == IF store = <<>> THEN Arr(<<>>) ELSE store[1]
        c == Consult(toolName, mode, NullishCoalesce(customModes, last),
                     toolRequirements, toolParams)
    IN [consulted |-> <<c>>,
        thrown |-> IF ~c.answer THEN <<Error(denialMessage(toolName, mode))>>
                   ELSE <<>>,
        customModes |-> customModes,
        toolRequirements |-> toolRequirements,
        toolParams |-> toolParams,
        store |-> IF customModes = Undefined THEN store ELSE <<customModes>>]

\* validateToolUse failing closed on absent requirements:
\* toolRequirements ?? { [toolName]: false }.
validateToolUse_defaultRequirements(toolName, mode, customModes, toolRequirements, toolParams) ==
    LET c == Consult(toolName, mode, NullishCoalesce(customModes, Arr(<<>>)),
                     NullishCoalesce(toolRequirements, Obj(toolName :> FALSE)),
                     toolParams)
    IN [consulted |-> <<c>>,
        thrown |-> IF ~c.answer THEN <<Error(denialMessage(toolName, mode))>>
                   ELSE <<>>,
        customModes |-> customModes,
        toolRequirements |-> toolRequirements,
        toolParams |-> toolParams,
        store |-> store]

\* validateToolUse reading customModes[0].slug before delegating: a TypeError
\* on an empty collection.
validateToolUse_firstCustomMode(toolName, mode, customModes, toolRequirements, toolParams) ==
    LET given == NullishCoalesce(customModes, Arr(<<>>))
        c == Consult(toolName, mode, given, toolRequirements, toolParams)
    IN [consulted |-> IF given.items = <<>> THEN <<>> ELSE <<c>>,
        thrown |-> IF given.items = <<>>
                   THEN <<[name |-> "TypeError",
                           message |-> "Cannot read properties of undefined (reading 'slug')"]>>
                   ELSE IF ~c.answer THEN <<Error(denialMessage(toolName, mode))>>
                   ELSE <<>>,
        customModes |-> customModes,
        toolRequirements |-> toolRequirements,
        toolParams |-> toolParams,
        store |-> store]

\* validateToolUse asking the resolver a second time before it gives up.
validateToolUse_retry(toolName, mode, customModes, toolRequirements, toolParams) ==
    LET c == Consult(toolName, mode, NullishCoalesce(customModes, Arr(<<>>)),
                     toolRequirements, toolParams)
    IN [consulted |-> IF ~c.answer THEN <<c, c>> ELSE <<c>>,
        thrown |-> IF ~c.answer THEN <<Error(denialMessage(toolName, mode))>>
                   ELSE <<>>,
        customModes |-> customModes,
        toolRequirements |-> toolRequirements,
        toolParams |-> toolParams,
        store |-> store]

\* validateToolUse logging the denial before it throws.
validateToolUse_logsDenial(toolName, mode, customModes, toolRequirements, toolParams) ==
    LET c == Consult(toolName, mode, NullishCoalesce(customModes, Arr(<<>>)),
                     toolRequirements, toolParams)
    IN [consulted |-> <<c>>,
        thrown |-> IF ~c.answer THEN <<Error(denialMessage(toolName, mode))>>
                   ELSE <<>>,
        customModes |-> customModes,
        toolRequirements |-> toolRequirements,
        toolParams |-> toolParams,
        store |-> IF ~c.answer THEN <<denialMessage(toolName, mode)>> ELSE store]

\* validateToolUse without the ?? []: customModes goes to the resolver as given.
validateToolUse_forwardsUndefined(toolName, mode, customModes, toolRequirements, toolParams) ==
    LET c == Consult(toolName, mode, customModes, toolRequirements, toolParams)
    IN [consulted |-> <<c>>,
        thrown |-> IF ~c.answer THEN <<Error(denialMessage(toolName, mode))>>
                   ELSE <<>>,
        customModes |-> customModes,
        toolRequirements |-> toolRequirements,
        toolParams |-> toolParams,
        store |-> store]

\* What one call does: the resolver consultations it makes, the errors it
\* throws to its caller (none: it returns), the argument objects and the
\* module-level store as it leaves them.
validateToolUse(toolName, mode, customModes, toolRequirements, toolParams) ==
    LET c == Consult(toolName, mode, NullishCoalesce(customModes, Arr(<<>>)),
                     toolRequirements, toolParams)
    IN [consulted |-> <<c>>,
        thrown |-> IF ~c.answer THEN <<Error(denialMessage(toolName, mode))>>
                   ELSE <<>>,
        customModes |-> customModes,
        toolRequirements |-> toolRequirements,
        toolParams |-> toolParams,
        store |-> store]

(***************************************************************************)
(* The gate's callers                                                      *)
(***************************************************************************)
NoCall == [task |-> 0]

NoRes == [consulted |-> <<>>, thrown |-> <<>>]

InitGate ==
    /\ pc = "idle"
    /\ call = NoCall
    /\ res = NoRes
    /\ seen = <<>>
    /\ store = <<>>

\* A task builds the arguments of its next call.
Request ==
    /\ pc = "idle"
    /\ \E t \in Tasks, tn \in ToolNames, m \in Modes, cm \in CustomModesInputs,
          rq \in ToolRequirementsInputs, pr \in ToolParamsInputs :
          call' = [task |-> t, toolName |-> tn, mode |-> m, customModes |-> cm,
                   toolRequirements |-> rq, toolParams |-> pr]
    /\ pc' = "ready"
    /\ UNCHANGED <<res, seen, store, headerVars>>

\* The call itself, from entry to return or throw.
Invoke ==
    /\ pc = "ready"
    /\ LET r == validateToolUse(call.toolName, call.mode, call.customModes,
                                call.toolRequirements, call.toolParams)
       IN /\ res' = [consulted |-> r.consulted, thrown |-> r.thrown]
          /\ call' = [call EXCEPT !.customModes = r.customModes,
                                  !.toolRequirements = r.toolRequirements,
                                  !.toolParams = r.toolParams]
          /\ store' = r.store
          /\ pc' = IF r.thrown = <<>> THEN "returned" ELSE "caught"
    /\ UNCHANGED <<seen, headerVars>>

\* The call returned: the caller goes on to run the tool.
Proceed ==
    /\ pc = "returned"
    /\ pc' = "idle"
    /\ \E keep \in BOOLEAN :
          seen' = IF keep THEN seen ELSE <<[call |-> call, res |-> res]>>
    /\ call' = NoCall
    /\ res' = NoRes
    /\ UNCHANGED <<store, headerVars>>

\* The call threw: the caller catches the error and refuses the tool.
Handle ==
    /\ pc = "caught"
    /\ pc' = "idle"
    /\ \E keep \in BOOLEAN :
          seen' = IF keep THEN seen ELSE <<[call |-> call, res |-> res]>>
    /\ call' = NoCall
    /\ res' = NoRes
    /\ UNCHANGED <<store, headerVars>>

(***************************************************************************)
(* TaskHeader                                                              *)
(***************************************************************************)
Num(n) == [type |-> "number", value |-> n]

\* JavaScript truthiness of undefined and of numbers.
Truthy(v) == v.type = "number" /\ v.value # 0

\* typeof v === "number" && v > 0
IsPositiveNumber(v) == v.type = "number" /\ v.value > 0

TotalCostInputs == {Num(0), Num(3)}

ContextWindowInputs == {Undefined, Num(0), Num(1), Num(200000)}

CacheReadsInputs == {Undefined, Num(0), Num(7)}

CacheWritesInputs == {Undefined, Num(5)}

PropsInputs ==
    [totalCost : TotalCostInputs,
     modelContextWindow : ContextWindowInputs,
     doesModelSupportPromptCache : BOOLEAN,
     cacheReads : CacheReadsInputs,
     cacheWrites : CacheWritesInputs]

\* The props of the first render: no cost yet, model info not loaded.
MountProps ==
    [totalCost |-> Num(0), modelContextWindow |-> Undefined,
     doesModelSupportPromptCache |-> FALSE,
     cacheReads |-> Undefined, cacheWrites |-> Undefined]

\* contextWindow without the || 1.
contextWindow_noDefault(p) ==
    IF p.modelContextWindow.type = "number" THEN p.modelContextWindow.value ELSE 0

\* model?.contextWindow || 1
contextWindow(p) ==
    IF Truthy(p.modelContextWindow) THEN p.modelContextWindow.value ELSE 1

El(row, el) == [row |-> row, el |-> el]

Opt(cond, els) == IF cond THEN els ELSE <<>>

TaskHeaderCacheInfoDisplay(p) ==
    Opt(/\ p.doesModelSupportPromptCache
        /\ IsPositiveNumber(p.cacheReads) \/ IsPositiveNumber(p.cacheWrites),
        <<El("cache", "CacheLabel")>>
        \o Opt(IsPositiveNumber(p.cacheWrites), <<El("cache", "CloudUpload")>>)
        \o Opt(IsPositiveNumber(p.cacheReads), <<El("cache", "CloudDownload")>>))

TaskHeaderApiCostDisplay(p) ==
    Opt(Truthy(p.totalCost), <<El("apiCost", "ApiCost")>>)

\* The elements one render produces, in document order.
TaskHeaderRender(expanded, p) ==
    <<El("title", IF expanded THEN "chevron-down" ELSE "chevron-right"),
      El("title", "Title")>>
    \o Opt(~expanded, <<El("title", "FirstLineOfTask")>>)
    \o <<El("title", "CloseButton")>>
    \o Opt(~expanded /\ contextWindow(p) > 0,
           <<El("collapsedFirst", "ContextDisplay"),
             El("collapsedSecond", "TokenUsage")>>
           \o Opt(Truthy(p.totalCost), <<El("collapsedSecond", "CostBadge")>>)
           \o Opt(p.doesModelSupportPromptCache /\ IsPositiveNumber(p.cacheReads),
                  <<El("collapsedSecond", "CloudDownload")>>)
           \o <<El("collapsedSecond", "TaskActions")>>)
    \o Opt(expanded,
           <<El("text", "TaskText")>>
           \o Opt(contextWindow(p) > 0, <<El("context", "ContextDisplay")>>)
           \o <<El("tokenUsage", "TokenUsage")>>
           \o Opt(~Truthy(p.totalCost), <<El("tokenUsage", "TaskActions")>>)
           \o TaskHeaderCacheInfoDisplay(p)
           \o Opt(Truthy(p.totalCost),
                  TaskHeaderApiCostDisplay(p) \o <<El("apiCost", "TaskActions")>>))

InitHeader ==
    /\ isTaskExpanded = FALSE
    /\ props = MountProps
    /\ dom = TaskHeaderRender(FALSE, MountProps)

\* onClick of the title row: setIsTaskExpanded(!isTaskExpanded), then render.
ClickTitle ==
    /\ isTaskExpanded' = ~isTaskExpanded
    /\ dom' = TaskHeaderRender(isTaskExpanded', props)
    /\ UNCHANGED <<props, gateVars>>

\* The parent renders the header again with other props.
PropsChange ==
    /\ \E p \in PropsInputs \ {props} : props' = p
    /\ dom' = TaskHeaderRender(isTaskExpanded, props')
    /\ UNCHANGED <<isTaskExpanded, gateVars>>

Init == InitGate /\ InitHeader

Next == Request \/ Invoke \/ Proceed \/ Handle

Spec == Init /\ [][Next]_vars

NextHeader == ClickTitle \/ PropsChange

SpecHeader == Init /\ [][NextHeader]_vars

(***************************************************************************)
(* Properties                                                              *)
(***************************************************************************)
Done == pc \in {"returned", "caught"}

\* The calls made so far that the state still records.
CompletedCalls ==
    {seen[i] : i \in DOMAIN seen}
    \cup (IF Done THEN {[call |-> call, res |-> res]} ELSE {})

\* The resolver's decision on the arguments of call c.
ResolverAnswer(c) ==
    isToolAllowedForMode(c.toolName, c.mode, c.customModes,
                         c.toolRequirements, c.toolParams)

\* The denial message of each tool and mode, written out.
ExpectedDenial(toolName, mode) ==
    CASE toolName = "execute_command" /\ mode = "ask" ->
            "Tool \"execute_command\" is not allowed in ask mode."
      [] toolName = "execute_command" /\ mode = "docs" ->
            "Tool \"execute_command\" is not allowed in docs mode."
      [] toolName = "read_file" /\ mode = "ask" ->
            "Tool \"read_file\" is not allowed in ask mode."
      [] toolName = "read_file" /\ mode = "docs" ->
            "Tool \"read_file\" is not allowed in docs mode."
      [] toolName = "write_to_file" /\ mode = "ask" ->
            "Tool \"write_to_file\" is not allowed in ask mode."
      [] toolName = "write_to_file" /\ mode = "docs" ->
            "Tool \"write_to_file\" is not allowed in docs mode."

SameInputs(a, b) ==
    /\ a.call.toolName = b.call.toolName
    /\ a.call.mode = b.call.mode
    /\ a.call.customModes = b.call.customModes
    /\ a.call.toolRequirements = b.call.toolRequirements
    /\ a.call.toolParams = b.call.toolParams

\* C1: whenever the resolver answers false for a call's arguments, the call
\* throws, and the error's message is exactly
\* Tool "<toolName>" is not allowed in <mode> mode. for that tool and mode.
C1_DenialMessage ==
    (Done /\ ~ResolverAnswer(call)) =>
        /\ pc = "caught"
        /\ Len(res.thrown) = 1
        /\ res.thrown[1].message = ExpectedDenial(call.toolName, call.mode)

C1_Witness ==
    /\ pc = "caught"
    /\ call.toolName = "execute_command"
    /\ call.mode = "ask"
    /\ call.customModes = Arr(<<>>)
    /\ ~ResolverAnswer(call)
    /\ res.thrown[1].message = "Tool \"execute_command\" is not allowed in ask mode."

\* C2: whenever the resolver answers true for a call's arguments, the call
\* returns normally and throws nothing.
C2_AllowedReturns ==
    (Done /\ ResolverAnswer(call)) => (pc = "returned" /\ res.thrown = <<>>)

C2_Witness ==
    /\ pc = "returned"
    /\ call.toolName = "read_file"
    /\ call.mode = "ask"
    /\ call.customModes = Arr(<<>>)
    /\ ResolverAnswer(call)

\* C3 as claimed: a denial is an error of the dedicated kind ToolNotAllowed
\* that carries the tool name and the mode as fields.
C3_DedicatedErrorKind ==
    pc = "caught" =>
        /\ res.thrown[1].name = "ToolNotAllowed"
        /\ {"toolName", "mode"} \subseteq DOMAIN res.thrown[1]

\* C3 as amended: a denial is a plain Error whose only payload is its message;
\* the tool name and the mode are carried in the message text alone.
C3_GenericError ==
    pc = "caught" =>
        /\ res.thrown[1].name = "Error"
        /\ DOMAIN res.thrown[1] = {"name", "message"}
        /\ res.thrown[1].message = ExpectedDenial(call.toolName, call.mode)

C3_Witness ==
    /\ pc = "caught"
    /\ call.toolName = "write_to_file"
    /\ call.mode = "docs"
    /\ res.thrown = <<[name |-> "Error",
                       message |-> "Tool \"write_to_file\" is not allowed in docs mode."]>>

\* C4: any two calls with identical arguments, by whichever tasks and with
\* whatever calls in between, have the same outcome: both return, or both
\* throw the same error.
C4_SameInputsSameOutcome ==
    \A a \in CompletedCalls, b \in CompletedCalls :
        SameInputs(a, b) => a.res.thrown = b.res.thrown

C4_Witness ==
    /\ Done
    /\ seen # <<>>
    /\ SameInputs(seen[1], [call |-> call, res |-> res])
    /\ seen[1].call.task # call.task
    /\ call.customModes = Undefined
    /\ pc = "caught"
    /\ seen[1].res.thrown = res.thrown

BothOmitted(c) == c.toolRequirements = Undefined /\ c.toolParams = Undefined

BothEmpty(c) == c.toolRequirements = Obj(NoFields) /\ c.toolParams = Obj(NoFields)

\* C5: a call that omits toolRequirements and toolParams has the same outcome
\* as a call on the same tool, mode and custom modes that passes both as
\* empty mappings.
C5_OmittedEqualsEmpty ==
    \A a \in CompletedCalls, b \in CompletedCalls :
        (/\ a.call.toolName = b.call.toolName
         /\ a.call.mode = b.call.mode
         /\ a.call.customModes = b.call.customModes
         /\ BothOmitted(a.call)
         /\ BothEmpty(b.call)) => a.res.thrown = b.res.thrown

C5_Witness ==
    /\ pc = "returned"
    /\ seen # <<>>
    /\ BothOmitted(seen[1].call)
    /\ BothEmpty(call)
    /\ seen[1].call.toolName = call.toolName
    /\ seen[1].call.mode = call.mode
    /\ seen[1].call.customModes = call.customModes
    /\ seen[1].res.thrown = res.thrown

\* The decision under the built-in rule set alone.
BuiltInOnlyDecision(c) ==
    /\ ~requirementDenies(c.toolName, c.toolRequirements)
    /\ \E i \in DOMAIN BuiltInModes :
          /\ BuiltInModes[i].slug = c.mode
          /\ \E j \in DOMAIN BuiltInModes[i].groups :
                groupAllows(BuiltInModes[i].groups[j], c.toolName, c.toolParams)

\* C6: a call with an empty customModes collection either returns or throws
\* the denial error, nothing else, and it returns exactly when the built-in
\* rule set alone allows the tool in the mode.
C6_EmptyCustomModes ==
    (Done /\ call.customModes = Arr(<<>>)) =>
        /\ \/ res.thrown = <<>>
           \/ res.thrown = <<Error(ExpectedDenial(call.toolName, call.mode))>>
        /\ (pc = "returned") <=> BuiltInOnlyDecision(call)

C6_Witness ==
    /\ pc = "caught"
    /\ call.customModes = Arr(<<>>)
    /\ call.mode = "docs"
    /\ call.toolName = "read_file"
    /\ ~BuiltInOnlyDecision(call)

\* C7: every call consults the resolver exactly once; a denied call throws
\* exactly one error to its caller and does not return; an allowed call
\* throws none.
C7_OneConsultOneError ==
    Done =>
        /\ Len(res.consulted) = 1
        /\ ~res.consulted[1].answer => (Len(res.thrown) = 1 /\ pc = "caught")
        /\ res.consulted[1].answer => (res.thrown = <<>> /\ pc = "returned")

C7_Witness ==
    /\ pc = "caught"
    /\ Len(res.consulted) = 1
    /\ ~res.consulted[1].answer
    /\ Len(res.thrown) = 1
    /\ call.toolRequirements = Obj("execute_command" :> FALSE)
    /\ call.toolName = "execute_command"

\* C8: a call, whether it returns or throws, leaves the customModes,
\* toolRequirements and toolParams it was given as they were, and leaves the
\* module-level store (logs, caches) as it was.
C8_NoSideEffects ==
    [][pc = "ready" => (store' = store /\ call' = call)]_vars

C8_Witness ==
    /\ pc = "caught"
    /\ call.customModes = Arr(<<DocsMode, AskOverride>>)
    /\ call.toolRequirements = Obj("execute_command" :> FALSE)
    /\ call.toolParams = Obj("path" :> "main.ts")
    /\ store = <<>>

\* C9: the resolver is always given an array of custom modes, the empty one
\* when the caller omitted customModes, and toolRequirements and toolParams
\* exactly as the caller passed them (absent stays absent); a call that omits
\* customModes has the same outcome as the same call with an empty array.
C9_OmittedCustomModes ==
    /\ Done =>
          \A i \in DOMAIN res.consulted :
             /\ res.consulted[i].customModes.type = "array"
             /\ call.customModes = Undefined =>
                   res.consulted[i].customModes = Arr(<<>>)
             /\ res.consulted[i].toolRequirements = call.toolRequirements
             /\ res.consulted[i].toolParams = call.toolParams
    /\ \A a \in CompletedCalls, b \in CompletedCalls :
          (/\ a.call.toolName = b.call.toolName
           /\ a.call.mode = b.call.mode
           /\ a.call.toolRequirements = b.call.toolRequirements
           /\ a.call.toolParams = b.call.toolParams
           /\ a.call.customModes = Undefined
           /\ b.call.customModes = Arr(<<>>)) => a.res.thrown = b.res.thrown

C9_Witness ==
    /\ pc = "returned"
    /\ call.customModes = Undefined
    /\ call.toolRequirements = Undefined
    /\ call.toolParams = Undefined
    /\ res.consulted[1].customModes = Arr(<<>>)
    /\ res.consulted[1].toolRequirements = Undefined
    /\ seen # <<>>
    /\ seen[1].call = [call EXCEPT !.customModes = Arr(<<>>)]
    /\ seen[1].res.thrown = res.thrown

TaskActionsRows == {dom[i].row : i \in {j \in DOMAIN dom : dom[j].el = "TaskActions"}}

TaskActionsCount == Cardinality({j \in DOMAIN dom : dom[j].el = "TaskActions"})

\* C10: after any sequence of clicks on the title row and for any props, the
\* header shows exactly one TaskActions: in the collapsed second row when
\* collapsed, in the token-usage row when expanded without cost, in the
\* API-cost row when expanded with a non-zero cost.
C10_OneTaskActions ==
    /\ TaskActionsCount = 1
    /\ TaskActionsRows =
          IF ~isTaskExpanded THEN {"collapsedSecond"}
          ELSE IF props.totalCost = Num(0) THEN {"tokenUsage"}
          ELSE {"apiCost"}

C10_Witness ==
    /\ isTaskExpanded
    /\ props.modelContextWindow = Num(0)
    /\ props.totalCost = Num(3)
    /\ TaskActionsCount = 1
    /\ TaskActionsRows = {"apiCost"}

=============================================================================
